---- MODULE Spec2Model ----
(***************************************************************************)
(* QR attendance-token protocol of NUTM-QR-CODE-ATTENDANCE: the issuance   *)
(* handler GET /api/student/generate-qr, the validation handler            *)
(* POST /api/attendance/scan, the token codec generateQRHash and the       *)
(* management handlers that change the tables the validator reads.         *)
(*                                                                         *)
(* Strings that enter the fingerprint are sequences of one-character       *)
(* strings, so that template-literal concatenation is real concatenation.  *)
(* Query results are sets of rows; "undefined" is the empty set of rows.   *)
(***************************************************************************)
EXTENDS Integers, Sequences, FiniteSets, TLC

VARIABLES
  users,        \* table users:       rows [id, username, email, role]
  courses,      \* table courses:     rows [id, courseCode]
  sessions,     \* table sessions:    rows [id, courseId, date]
  enrollments,  \* table enrollments: rows [id, studentId, courseId]
  attendance,   \* table attendance:  rows [id, studentId, sessionId, timestamp, qrCode]
  serial,       \* the serial id sequences of the tables, [table name -> last id given]
  clock,        \* the server's wall clock, ms (what new Date().getTime() returns)
  req,          \* the scan handler invocations, [Reqs -> invocation record]
  gen,          \* the generate-qr handler invocation
  issued,       \* history: every qrData a generate-qr response has carried
  nCrud         \* history: number of management requests that changed a table

vars == <<users, courses, sessions, enrollments, attendance, serial, clock,
          req, gen, issued, nCrud>>

store == <<users, courses, sessions, enrollments, attendance, serial>>

----------------------------------------------------------------------------
(* Bounds of the model. *)

MaxReq == 2          \* scan invocations that can be in flight together
MaxCrud == 2         \* management requests that change a table
MaxAttendance == 2   \* scans are started while the table holds fewer rows
MaxIssued == 2       \* generate-qr responses

Reqs == 1..MaxReq

----------------------------------------------------------------------------
(* JavaScript numbers that can be NaN. *)

NaN == [nan |-> TRUE, v |-> 0]
Num(n) == [nan |-> FALSE, v |-> n]

\* a - b
Minus(a, b) == IF a.nan \/ b.nan THEN NaN ELSE Num(a.v - b.v)

\* a > b: false when either side is NaN
Greater(a, b) == ~a.nan /\ ~b.nan /\ a.v > b.v

\* a <= b: false when either side is NaN
AtMost(a, b) == ~a.nan /\ ~b.nan /\ a.v <= b.v

----------------------------------------------------------------------------
(* Strings. *)

DigitChars == <<"0", "1", "2", "3", "4", "5", "6", "7", "8", "9">>

Digit(d) == DigitChars[d + 1]

IsDigit(c) == \E d \in 0..9 : DigitChars[d + 1] = c

DigitVal(c) == CHOOSE d \in 0..9 : DigitChars[d + 1] = c

\* `${n}` for an integer n
RECURSIVE NatToString(_)
NatToString(n) == IF n < 10 THEN <<Digit(n)>>
                  ELSE NatToString(n \div 10) \o <<Digit(n % 10)>>

NumberToString(n) == IF n < 0 THEN <<"-">> \o NatToString(0 - n) ELSE NatToString(n)

Pad2(n) == <<Digit(n \div 10), Digit(n % 10)>>

Pad3(n) == <<Digit(n \div 100), Digit((n \div 10) % 10), Digit(n % 10)>>

\* The date and hour of every instant of the model: the first hour of the epoch.
IsoDateHour == <<"1", "9", "7", "0", "-", "0", "1", "-", "0", "1", "T", "0", "0", ":">>

\* Date.prototype.toISOString for 0 <= ms < 3600000: 1970-01-01T00:MM:SS.mmmZ
toISOString(ms) ==
  IsoDateHour \o Pad2(ms \div 60000) \o <<":">> \o Pad2((ms % 60000) \div 1000)
              \o <<".">> \o Pad3(ms % 1000) \o <<"Z">>

\* new Date(s).getTime() for the strings the model presents: the instant of a
\* string in toISOString's format, NaN for any other string.
DateParse(s) ==
  IF /\ Len(s) = 24
     /\ SubSeq(s, 1, 14) = IsoDateHour
     /\ \A i \in {15, 16, 18, 19, 21, 22, 23} : IsDigit(s[i])
     /\ s[17] = ":" /\ s[20] = "." /\ s[24] = "Z"
     /\ DigitVal(s[15]) * 10 + DigitVal(s[16]) < 60
     /\ DigitVal(s[18]) * 10 + DigitVal(s[19]) < 60
  THEN Num((DigitVal(s[15]) * 10 + DigitVal(s[16])) * 60000
           + (DigitVal(s[18]) * 10 + DigitVal(s[19])) * 1000
           + DigitVal(s[21]) * 100 + DigitVal(s[22]) * 10 + DigitVal(s[23]))
  ELSE NaN

----------------------------------------------------------------------------
(* Token codec. *)

\* crypto.createHash('sha256').update(data).digest('hex'), taken as injective:
\* the digest of data is data behind a marker no input string starts with.
SHA256(data) == <<"#">> \o data

\* A server-side key mixed into the digest (the code has none).
generateQRHash_keyed(studentId, sessionId, timestamp) ==
  SHA256(<<"k", "e", "y">> \o NumberToString(studentId) \o <<":">>
         \o NumberToString(sessionId) \o <<":">> \o timestamp)

generateQRHash_noTimestamp(studentId, sessionId, timestamp) ==
  SHA256(NumberToString(studentId) \o <<":">> \o NumberToString(sessionId))

\* The digest also takes in the instant of the call.
generateQRHash_clocked(studentId, sessionId, timestamp) ==
  SHA256(NumberToString(studentId) \o <<":">> \o NumberToString(sessionId)
         \o <<":">> \o timestamp \o <<"@">> \o NumberToString(clock))

generateQRHash(studentId, sessionId, timestamp) ==
  SHA256(NumberToString(studentId) \o <<":">> \o NumberToString(sessionId)
         \o <<":">> \o timestamp)

----------------------------------------------------------------------------
(* Record Store: the tables after seedDatabaseIfEmpty, and the queries. *)

SeedUsers(admin, student) ==
  { [id |-> admin, username |-> "admin", email |-> "admin@nutm.edu.ng", role |-> "admin"],
    [id |-> student, username |-> "student", email |-> "student@nutm.edu.ng",
     role |-> "student"] }

SeedCourses ==
  { [id |-> 1, courseCode |-> "CSC301"],
    [id |-> 2, courseCode |-> "CSC302"],
    [id |-> 3, courseCode |-> "CSC303"] }

\* Two sessions dated now and one dated yesterday.
SeedSessions(now) ==
  { [id |-> 1, courseId |-> 1, date |-> now],
    [id |-> 2, courseId |-> 2, date |-> now],
    [id |-> 3, courseId |-> 3, date |-> now - 24 * 60 * 60 * 1000] }

SeedEnrollments(student) ==
  { [id |-> 1, studentId |-> student, courseId |-> 1],
    [id |-> 2, studentId |-> student, courseId |-> 2],
    [id |-> 3, studentId |-> student, courseId |-> 3] }

getUser(id) == {u \in users : u.id = id}

getUserByUsername(username) == {u \in users : u.username = username}

getUserByEmail(email) == {u \in users : u.email = email}

getCourse(id) == {c \in courses : c.id = id}

getCourseByCode(code) == {c \in courses : c.courseCode = code}

getSession(id) == {s \in sessions : s.id = id}

getSessions == sessions

getEnrollmentsByStudent(studentId) == {e \in enrollments : e.studentId = studentId}

getAttendanceBySession(sessionId) == {a \in attendance : a.sessionId = sessionId}

\* db.insert(table).values(row).returning(): the row with the next serial id.
createUser(row) ==
  /\ users' = users \cup {[id |-> serial.users + 1, username |-> row.username,
                           email |-> row.email, role |-> row.role]}
  /\ serial' = [serial EXCEPT !.users = @ + 1]
  /\ UNCHANGED <<courses, sessions, enrollments, attendance>>

createCourse(row) ==
  /\ courses' = courses \cup {[id |-> serial.courses + 1, courseCode |-> row.courseCode]}
  /\ serial' = [serial EXCEPT !.courses = @ + 1]
  /\ UNCHANGED <<users, sessions, enrollments, attendance>>

\* db.update(courses).set(course).where(eq(courses.id, id)): the row of that
\* id with the fields sent; course_code is unique, a clash changes nothing.
updateCourse(id, row) ==
  /\ courses' = IF \E c \in courses : c.id # id /\ c.courseCode = row.courseCode
                THEN courses
                ELSE {IF c.id = id THEN [c EXCEPT !.courseCode = row.courseCode] ELSE c :
                        c \in courses}
  /\ UNCHANGED <<users, sessions, enrollments, attendance, serial>>

\* The delete cascades to the sessions of the course and their attendance.
deleteCourse_cascade(id) ==
  /\ courses' = {c \in courses : c.id # id}
  /\ sessions' = {n \in sessions : n.courseId # id}
  /\ attendance' = {a \in attendance :
                      \A n \in sessions : n.id = a.sessionId => n.courseId # id}
  /\ UNCHANGED <<users, enrollments, serial>>

deleteCourse(id) ==
  /\ courses' = {c \in courses : c.id # id}
  /\ UNCHANGED <<users, sessions, enrollments, attendance, serial>>

createSession(row) ==
  /\ sessions' = sessions \cup {[id |-> serial.sessions + 1, courseId |-> row.courseId,
                                 date |-> row.date]}
  /\ serial' = [serial EXCEPT !.sessions = @ + 1]
  /\ UNCHANGED <<users, courses, enrollments, attendance>>

createEnrollment(row) ==
  /\ enrollments' = enrollments \cup {[id |-> serial.enrollments + 1,
                                       studentId |-> row.studentId,
                                       courseId |-> row.courseId]}
  /\ serial' = [serial EXCEPT !.enrollments = @ + 1]
  /\ UNCHANGED <<users, courses, sessions, attendance>>

\* The row createAttendance returns.
NewAttendance(row) ==
  [id |-> serial.attendance + 1, studentId |-> row.studentId,
   sessionId |-> row.sessionId, timestamp |-> row.timestamp, qrCode |-> row.qrCode]

createAttendance(row) ==
  /\ attendance' = attendance \cup {NewAttendance(row)}
  /\ serial' = [serial EXCEPT !.attendance = @ + 1]
  /\ UNCHANGED <<users, courses, sessions, enrollments>>

----------------------------------------------------------------------------
(* Callers and request bodies. *)

\* req.user: no row for a request without a login session, else the user's row.
Callers == {{}} \cup {{u} : u \in users}

isAuthenticated(caller) == caller # {}

\* Any authenticated caller passes.
requireAdmin_authenticatedOnly(caller) == IF ~isAuthenticated(caller) THEN 401 ELSE 0

\* What requireAdmin answers: 0 for next(), else the status it sends.
requireAdmin(caller) ==
  IF ~isAuthenticated(caller) THEN 401
  ELSE IF \E u \in caller : u.role # "admin" THEN 403
  ELSE 0

requireStudent(caller) ==
  IF ~isAuthenticated(caller) THEN 401
  ELSE IF \E u \in caller : u.role # "student" THEN 403
  ELSE 0

AuthMessage(status) == IF status = 401 THEN "Not authenticated" ELSE "Not authorized"

\* typeof of the four fields of a body every field of which has the type
\* qrCodeSchema wants.
WellTyped == [studentId |-> "number", sessionId |-> "number",
              timestamp |-> "string", hash |-> "string"]

\* The JSON body that carries the token qr.
Json(qr) == [types |-> WellTyped, studentId |-> qr.studentId, sessionId |-> qr.sessionId,
             timestamp |-> qr.timestamp, hash |-> qr.hash]

\* The fields zod hands back from a body it accepts.
qrDataOf(body) == [studentId |-> body.studentId, sessionId |-> body.sessionId,
                   timestamp |-> body.timestamp, hash |-> body.hash]

SchemaFields == <<"studentId", "sessionId", "timestamp", "hash">>

\* The issues of qrCodeSchema.parse(body), in the schema's field order.
qrCodeSchemaIssues(body) ==
  SelectSeq(SchemaFields, LAMBDA f : body.types[f] # WellTyped[f])

\* error.errors[0].message of the ZodError
ZodMessage(body) ==
  LET f == Head(qrCodeSchemaIssues(body))
  IN  IF body.types[f] = "undefined" THEN "Required"
      ELSE IF WellTyped[f] = "number" THEN "Expected number, received string"
      ELSE "Expected string, received number"

----------------------------------------------------------------------------
(* POST /api/attendance/scan *)

tenMinutesInMs == 10 * 60 * 1000

NoBody == [types |-> WellTyped, studentId |-> 0, sessionId |-> 0,
           timestamp |-> <<>>, hash |-> <<>>]

NoRes == [status |-> 0, message |-> "", attendance |-> {}]

NoPre == [users |-> {}, sessions |-> {}, enrollments |-> {}, attendance |-> {}]

\* An invocation: the await it is suspended at (pc), req.user (caller), the
\* handler's locals (body, now, student, session, stamp: the new Date() of
\* the row to insert), its response, and the tables as they were when it
\* started (pre, history).
FreshReq == [pc |-> "idle", caller |-> {}, admitted |-> FALSE, body |-> NoBody, now |-> 0,
             student |-> {}, session |-> {}, stamp |-> 0, res |-> NoRes, pre |-> NoPre]

Snapshot == [users |-> users, sessions |-> sessions, enrollments |-> enrollments,
             attendance |-> attendance]

Suspended == {"getUser", "getSession", "getEnrollmentsByStudent",
              "getAttendanceBySession", "createAttendance"}

Response(status, message, rows) ==
  [status |-> status, message |-> message, attendance |-> rows]

\* res.status(status).json({message}) ends the invocation r.
Reject(r, status, message) ==
  req' = [req EXCEPT ![r].pc = "done", ![r].res = Response(status, message, {})]

\* A single active token per student and session: a token is also refused
\* when a later one was issued for its pair.
HashMismatch_latestOnly(qrData) ==
  \/ qrData.hash # generateQRHash(qrData.studentId, qrData.sessionId, qrData.timestamp)
  \/ \E qr \in issued :
       /\ qr.studentId = qrData.studentId /\ qr.sessionId = qrData.sessionId
       /\ Greater(DateParse(qr.timestamp), DateParse(qrData.timestamp))

\* qrData.hash !== expectedHash
HashMismatch(qrData) ==
  qrData.hash # generateQRHash(qrData.studentId, qrData.sessionId, qrData.timestamp)

\* A window with a lower bound: a token dated after now is expired too.
Expired_twoSided(qrData, now) ==
  LET diff == Minus(Num(now), DateParse(qrData.timestamp))
  IN  Greater(diff, Num(tenMinutesInMs)) \/ Greater(Num(0), diff)

\* diff > tenMinutesInMs, diff = now.getTime() - qrTimestamp.getTime()
Expired_inclusive(qrData, now) ==
  LET diff == Minus(Num(now), DateParse(qrData.timestamp))
  IN  ~diff.nan /\ diff.v >= tenMinutesInMs

Expired(qrData, now) ==
  Greater(Minus(Num(now), DateParse(qrData.timestamp)), Num(tenMinutesInMs))

\* The checks made before the first await: the message of the 400 they end
\* in, "" when they all pass.
TokenChecks_expiryFirst(body, now) ==
  IF qrCodeSchemaIssues(body) # <<>> THEN ZodMessage(body)
  ELSE IF Expired(qrDataOf(body), now) THEN "QR code expired"
  ELSE IF HashMismatch(qrDataOf(body)) THEN "Invalid QR code"
  ELSE ""

TokenChecks(body, now) ==
  IF qrCodeSchemaIssues(body) # <<>> THEN ZodMessage(body)
  ELSE IF HashMismatch(qrDataOf(body)) THEN "Invalid QR code"
  ELSE IF Expired(qrDataOf(body), now) THEN "QR code expired"
  ELSE ""

\* Any user row passes for a student.
NotStudent_anyUser(student) == student = {}

\* !student || student.role !== 'student'
NotStudent(student) == student = {} \/ \E u \in student : u.role # "student"

\* enrollments.some(e => e.courseId === session.courseId)
enrolled_any(rows, session) == rows # {}

enrolled(rows, session) == \E e \in rows : \E s \in session : e.courseId = s.courseId

\* (await storage.getAttendanceBySession(...)).filter(a => a.studentId === qrData.studentId)
existingAttendance_none(rows, qrData) == {}

existingAttendance(rows, qrData) == {a \in rows : a.studentId = qrData.studentId}

\* requireAdmin, then the handler up to its first await.
ScanStart(r, caller, body) ==
  /\ req[r].pc = "idle"
  /\ Cardinality(attendance) < MaxAttendance
  /\ LET fresh == [FreshReq EXCEPT !.pre = Snapshot, !.caller = caller]
     IN  IF requireAdmin(caller) # 0
         THEN req' = [req EXCEPT ![r] = [fresh EXCEPT
                        !.pc = "done",
                        !.res = Response(requireAdmin(caller),
                                         AuthMessage(requireAdmin(caller)), {})]]
         ELSE IF TokenChecks(body, clock) # ""
         THEN req' = [req EXCEPT ![r] = [fresh EXCEPT
                        !.pc = "done", !.admitted = TRUE, !.body = body, !.now = clock,
                        !.res = Response(400, TokenChecks(body, clock), {})]]
         ELSE req' = [req EXCEPT ![r] = [fresh EXCEPT
                        !.pc = "getUser", !.admitted = TRUE, !.body = body,
                        !.now = clock]]
  /\ UNCHANGED <<store, clock, gen, issued, nCrud>>

\* A missing student is answered with the message of a missing session.
ScanGetUser_sharedMessage(r) ==
  /\ req[r].pc = "getUser"
  /\ LET student == getUser(req[r].body.studentId)
     IN  IF NotStudent(student)
         THEN Reject(r, 400, "Session not found")
         ELSE req' = [req EXCEPT ![r].pc = "getSession", ![r].student = student]
  /\ UNCHANGED <<store, clock, gen, issued, nCrud>>

\* storage.getUser resolves.
ScanGetUser(r) ==
  /\ req[r].pc = "getUser"
  /\ LET student == getUser(req[r].body.studentId)
     IN  IF NotStudent(student)
         THEN Reject(r, 400, "Student not found")
         ELSE req' = [req EXCEPT ![r].pc = "getSession", ![r].student = student]
  /\ UNCHANGED <<store, clock, gen, issued, nCrud>>

\* The enrollments are not read: the duplicate read follows the session read.
ScanGetSession_skipEnrollments(r) ==
  /\ req[r].pc = "getSession"
  /\ LET session == getSession(req[r].body.sessionId)
     IN  IF session = {}
         THEN Reject(r, 400, "Session not found")
         ELSE req' = [req EXCEPT ![r].pc = "getAttendanceBySession",
                                 ![r].session = session]
  /\ UNCHANGED <<store, clock, gen, issued, nCrud>>

\* A missing session is answered 404.
ScanGetSession_notFound404(r) ==
  /\ req[r].pc = "getSession"
  /\ LET session == getSession(req[r].body.sessionId)
     IN  IF session = {}
         THEN Reject(r, 404, "Session not found")
         ELSE req' = [req EXCEPT ![r].pc = "getEnrollmentsByStudent",
                                 ![r].session = session]
  /\ UNCHANGED <<store, clock, gen, issued, nCrud>>

\* storage.getSession resolves.
ScanGetSession(r) ==
  /\ req[r].pc = "getSession"
  /\ LET session == getSession(req[r].body.sessionId)
     IN  IF session = {}
         THEN Reject(r, 400, "Session not found")
         ELSE req' = [req EXCEPT ![r].pc = "getEnrollmentsByStudent",
                                 ![r].session = session]
  /\ UNCHANGED <<store, clock, gen, issued, nCrud>>

\* The enrollments are those of the moment the handler was entered.
ScanGetEnrollments_atEntry(r) ==
  /\ req[r].pc = "getEnrollmentsByStudent"
  /\ IF ~enrolled({e \in req[r].pre.enrollments : e.studentId = req[r].body.studentId},
                  req[r].session)
     THEN Reject(r, 400, "Student not enrolled in this course")
     ELSE req' = [req EXCEPT ![r].pc = "getAttendanceBySession"]
  /\ UNCHANGED <<store, clock, gen, issued, nCrud>>

\* storage.getEnrollmentsByStudent resolves.
ScanGetEnrollments(r) ==
  /\ req[r].pc = "getEnrollmentsByStudent"
  /\ IF ~enrolled(getEnrollmentsByStudent(req[r].body.studentId), req[r].session)
     THEN Reject(r, 400, "Student not enrolled in this course")
     ELSE req' = [req EXCEPT ![r].pc = "getAttendanceBySession"]
  /\ UNCHANGED <<store, clock, gen, issued, nCrud>>

\* The row carries the instant the token names.
AttendanceRow_tokenTime(r) ==
  [studentId |-> req[r].body.studentId, sessionId |-> req[r].body.sessionId,
   timestamp |-> DateParse(req[r].body.timestamp).v, qrCode |-> req[r].body.hash]

\* The row the handler hands to createAttendance.
AttendanceRow(r) ==
  [studentId |-> req[r].body.studentId, sessionId |-> req[r].body.sessionId,
   timestamp |-> req[r].stamp, qrCode |-> req[r].body.hash]

\* The row is inserted before the duplicate check answers.
ScanGetAttendance_insertFirst(r) ==
  /\ req[r].pc = "getAttendanceBySession"
  /\ IF existingAttendance(getAttendanceBySession(req[r].body.sessionId),
                           qrDataOf(req[r].body)) # {}
     THEN /\ Reject(r, 400, "Attendance already recorded")
          /\ createAttendance([AttendanceRow(r) EXCEPT !.timestamp = clock])
     ELSE /\ req' = [req EXCEPT ![r].pc = "createAttendance", ![r].stamp = clock]
          /\ UNCHANGED store
  /\ UNCHANGED <<clock, gen, issued, nCrud>>

\* storage.getAttendanceBySession resolves; when no row is found the handler
\* builds the row to insert, new Date() included, and calls createAttendance.
ScanGetAttendance(r) ==
  /\ req[r].pc = "getAttendanceBySession"
  /\ IF existingAttendance(getAttendanceBySession(req[r].body.sessionId),
                           qrDataOf(req[r].body)) # {}
     THEN Reject(r, 400, "Attendance already recorded")
     ELSE req' = [req EXCEPT ![r].pc = "createAttendance", ![r].stamp = clock]
  /\ UNCHANGED <<store, clock, gen, issued, nCrud>>

\* storage.createAttendance resolves: the row is in the table, the answer is 201.
ScanCreateAttendance(r) ==
  /\ req[r].pc = "createAttendance"
  /\ createAttendance(AttendanceRow(r))
  /\ req' = [req EXCEPT ![r].pc = "done",
                        ![r].res = Response(201, "Attendance recorded successfully",
                                            {NewAttendance(AttendanceRow(r))})]
  /\ UNCHANGED <<clock, gen, issued, nCrud>>

\* The awaited store call rejects: the catch block answers 500. A rejected
\* call has changed no table.
ScanStoreError(r) ==
  /\ req[r].pc \in Suspended
  /\ Reject(r, 500, "Server error")
  /\ UNCHANGED <<store, clock, gen, issued, nCrud>>

----------------------------------------------------------------------------
(* GET /api/student/generate-qr *)

expiresIn == 600

\* The invocation: pc, req.user (caller), the locals studentId and timestamp,
\* and the response (qrData: the set holding the token of a 200, expiresIn:
\* its budget).
FreshGen == [pc |-> "idle", caller |-> {}, studentId |-> 0, timestamp |-> <<>>, status |-> 0,
             message |-> "", qrData |-> {}, expiresIn |-> 0]

\* sessions.sort((a, b) => b.date - a.date)[0]: a session no other session is
\* dated after; which of several the store's row order decides.
MostRecent_unsorted(rows) == {s \in rows : \A t \in rows : s.id <= t.id}

MostRecent(rows) == {s \in rows : \A t \in rows : s.date >= t.date}

\* The qrData of the response: the hash is taken over the three fields sent.
QrData_restamped(studentId, sessionId, timestamp) ==
  [studentId |-> studentId, sessionId |-> sessionId, timestamp |-> timestamp,
   hash |-> generateQRHash(studentId, sessionId, toISOString(clock + 1))]

\* The payload carries a timestamp taken anew, the hash the first one.
QrData_twoStamps(studentId, sessionId, timestamp) ==
  [studentId |-> studentId, sessionId |-> sessionId,
   timestamp |-> toISOString(clock + 1),
   hash |-> generateQRHash(studentId, sessionId, timestamp)]

QrData(studentId, sessionId, timestamp) ==
  [studentId |-> studentId, sessionId |-> sessionId, timestamp |-> timestamp,
   hash |-> generateQRHash(studentId, sessionId, timestamp)]

\* The student id is read from the request: any id may be sent.
GenStart_idFromRequest(caller) ==
  /\ gen.pc = "idle"
  /\ Cardinality(issued) < MaxIssued
  /\ IF requireStudent(caller) # 0
     THEN gen' = [FreshGen EXCEPT !.pc = "done", !.caller = caller,
                                  !.status = requireStudent(caller),
                                  !.message = AuthMessage(requireStudent(caller))]
     ELSE \E u \in users :
            gen' = [FreshGen EXCEPT !.pc = "getSessions", !.caller = caller,
                                    !.studentId = u.id,
                                    !.timestamp = toISOString(clock)]
  /\ UNCHANGED <<store, clock, req, issued, nCrud>>

\* requireStudent, then the handler up to its await: the timestamp is taken.
GenStart(caller) ==
  /\ gen.pc = "idle"
  /\ Cardinality(issued) < MaxIssued
  /\ IF requireStudent(caller) # 0
     THEN gen' = [FreshGen EXCEPT !.pc = "done", !.caller = caller,
                                  !.status = requireStudent(caller),
                                  !.message = AuthMessage(requireStudent(caller))]
     ELSE \E u \in caller :
            gen' = [FreshGen EXCEPT !.pc = "getSessions", !.caller = caller,
                                    !.studentId = u.id,
                                    !.timestamp = toISOString(clock)]
  /\ UNCHANGED <<store, clock, req, issued, nCrud>>

\* The issued token is registered in the store (a session row stands for it).
GenGetSessions_registering ==
  /\ gen.pc = "getSessions"
  /\ getSessions # {}
  /\ \E session \in MostRecent(getSessions) :
       LET qrData == QrData(gen.studentId, session.id, gen.timestamp)
       IN  /\ gen' = [gen EXCEPT !.pc = "done", !.status = 200,
                                 !.qrData = {qrData}, !.expiresIn = expiresIn]
           /\ issued' = issued \cup {qrData}
           /\ createSession([courseId |-> session.courseId, date |-> session.date])
  /\ UNCHANGED <<clock, req, nCrud>>

\* The budget of the response depends on the store: a minute per session.
GenGetSessions_budgetPerSession ==
  /\ gen.pc = "getSessions"
  /\ IF getSessions = {}
     THEN /\ gen' = [gen EXCEPT !.pc = "done", !.status = 404,
                                !.message = "No active sessions found"]
          /\ UNCHANGED issued
     ELSE \E session \in MostRecent(getSessions) :
            LET qrData == QrData(gen.studentId, session.id, gen.timestamp)
            IN  /\ gen' = [gen EXCEPT !.pc = "done", !.status = 200,
                                      !.qrData = {qrData},
                                      !.expiresIn = 60 * Cardinality(getSessions)]
                /\ issued' = issued \cup {qrData}
  /\ UNCHANGED <<store, clock, req, nCrud>>

\* storage.getSessions resolves.
GenGetSessions ==
  /\ gen.pc = "getSessions"
  /\ IF getSessions = {}
     THEN /\ gen' = [gen EXCEPT !.pc = "done", !.status = 404,
                                !.message = "No active sessions found"]
          /\ UNCHANGED issued
     ELSE \E session \in MostRecent(getSessions) :
            LET qrData == QrData(gen.studentId, session.id, gen.timestamp)
            IN  /\ gen' = [gen EXCEPT !.pc = "done", !.status = 200,
                                      !.qrData = {qrData}, !.expiresIn = expiresIn]
                /\ issued' = issued \cup {qrData}
  /\ UNCHANGED <<store, clock, req, nCrud>>

\* storage.getSessions rejects: the catch block answers 500.
GenStoreError ==
  /\ gen.pc = "getSessions"
  /\ gen' = [gen EXCEPT !.pc = "done", !.status = 500, !.message = "Server error"]
  /\ UNCHANGED <<store, clock, req, issued, nCrud>>

----------------------------------------------------------------------------
(* The session-token version of the two routes (registerRoutes, first      *)
(* definition): the caller is known by req.session.token, set at login.    *)

OneDay == 24 * 60 * 60 * 1000

\* generateToken(userId, role) called at the instant now: the payload.
generateToken(userId, role, now) == [userId |-> userId, role |-> role, exp |-> now + OneDay]

\* verifyToken(token) at the instant now: the payload, none (null) when the
\* token has expired.
verifyToken(token, now) == {payload \in token : ~(payload.exp < now)}

\* The checks the two handlers open with, for the role they want: 0 when
\* they pass, else the status sent.
TokenGate(token, now, role) ==
  IF token = {} THEN 401
  ELSE IF verifyToken(token, now) = {} \/ \E payload \in verifyToken(token, now) :
                                            payload.role # role
  THEN 403
  ELSE 0

\* GET /api/student/generate-qr up to its await.
TokenGenStart(token) ==
  /\ gen.pc = "idle"
  /\ Cardinality(issued) < MaxIssued
  /\ IF TokenGate(token, clock, "student") # 0
     THEN gen' = [FreshGen EXCEPT !.pc = "done", !.caller = token,
                                  !.status = TokenGate(token, clock, "student"),
                                  !.message = AuthMessage(TokenGate(token, clock, "student"))]
     ELSE \E payload \in verifyToken(token, clock) :
            gen' = [FreshGen EXCEPT !.pc = "getSessions", !.caller = token,
                                    !.studentId = payload.userId,
                                    !.timestamp = toISOString(clock)]
  /\ UNCHANGED <<store, clock, req, issued, nCrud>>

\* storage.getSessions rejects and the handler has no try/catch: the
\* rejection leaves the handler. Express 4 sends nothing (status 0 here);
\* Express 5 hands it to its error handler, which answers 500 with no
\* message of the application.
TokenGenStoreError ==
  /\ gen.pc = "getSessions"
  /\ \E status \in {0, 500} :
       gen' = [gen EXCEPT !.pc = "done", !.status = status, !.message = ""]
  /\ UNCHANGED <<store, clock, req, issued, nCrud>>

\* POST /api/attendance/scan up to its first await; from there on the
\* handler is, line for line, that of the middleware version.
TokenScanStart(r, token, body) ==
  /\ req[r].pc = "idle"
  /\ Cardinality(attendance) < MaxAttendance
  /\ LET fresh == [FreshReq EXCEPT !.pre = Snapshot, !.caller = token]
         gate == TokenGate(token, clock, "admin")
     IN  IF gate # 0
         THEN req' = [req EXCEPT ![r] = [fresh EXCEPT
                        !.pc = "done", !.res = Response(gate, AuthMessage(gate), {})]]
         ELSE IF TokenChecks(body, clock) # ""
         THEN req' = [req EXCEPT ![r] = [fresh EXCEPT
                        !.pc = "done", !.admitted = TRUE, !.body = body, !.now = clock,
                        !.res = Response(400, TokenChecks(body, clock), {})]]
         ELSE req' = [req EXCEPT ![r] = [fresh EXCEPT
                        !.pc = "getUser", !.admitted = TRUE, !.body = body,
                        !.now = clock]]
  /\ UNCHANGED <<store, clock, gen, issued, nCrud>>

----------------------------------------------------------------------------
(* The management handlers that change the tables the validator reads.     *)
(* Their 4xx answers change nothing and are not recorded.                  *)

\* POST /api/courses
PostCourse(caller, courseCode) ==
  /\ nCrud < MaxCrud
  /\ requireAdmin(caller) = 0
  /\ getCourseByCode(courseCode) = {}
  /\ createCourse([courseCode |-> courseCode])
  /\ nCrud' = nCrud + 1
  /\ UNCHANGED <<clock, req, gen, issued>>

\* PUT /api/courses/:id
PutCourse(caller, courseId, courseCode) ==
  /\ nCrud < MaxCrud
  /\ requireAdmin(caller) = 0
  /\ getCourse(courseId) # {}
  /\ updateCourse(courseId, [courseCode |-> courseCode])
  /\ nCrud' = nCrud + 1
  /\ UNCHANGED <<clock, req, gen, issued>>

\* DELETE /api/courses/:id
DeleteCourse(caller, courseId) ==
  /\ nCrud < MaxCrud
  /\ requireAdmin(caller) = 0
  /\ getCourse(courseId) # {}
  /\ deleteCourse(courseId)
  /\ nCrud' = nCrud + 1
  /\ UNCHANGED <<clock, req, gen, issued>>

\* POST /api/sessions
PostSession(caller, courseId, date) ==
  /\ nCrud < MaxCrud
  /\ requireAdmin(caller) = 0
  /\ getCourse(courseId) # {}
  /\ createSession([courseId |-> courseId, date |-> date])
  /\ nCrud' = nCrud + 1
  /\ UNCHANGED <<clock, req, gen, issued>>

\* POST /api/students
PostStudent(caller, username, email) ==
  /\ nCrud < MaxCrud
  /\ requireAdmin(caller) = 0
  /\ getUserByEmail(email) = {}
  /\ getUserByUsername(username) = {}
  /\ createUser([username |-> username, email |-> email, role |-> "student"])
  /\ nCrud' = nCrud + 1
  /\ UNCHANGED <<clock, req, gen, issued>>

\* POST /api/enrollments
PostEnrollment(caller, studentId, courseId) ==
  /\ nCrud < MaxCrud
  /\ requireAdmin(caller) = 0
  /\ ~NotStudent(getUser(studentId))
  /\ getCourse(courseId) # {}
  /\ createEnrollment([studentId |-> studentId, courseId |-> courseId])
  /\ nCrud' = nCrud + 1
  /\ UNCHANGED <<clock, req, gen, issued>>

----------------------------------------------------------------------------
(* The wall clock, the delivery of responses and the inputs of the requests. *)

\* The clock moves on to a later instant of T.
Tick(T) ==
  /\ \E t \in T : t > clock /\ clock' = t
  /\ UNCHANGED <<store, req, gen, issued, nCrud>>

\* The response of a finished scan invocation has gone out.
ScanEnd(r) ==
  /\ req[r].pc = "done"
  /\ req' = [req EXCEPT ![r] = FreshReq]
  /\ UNCHANGED <<store, clock, gen, issued, nCrud>>

\* The response of a finished generate-qr invocation has gone out.
GenEnd ==
  /\ gen.pc = "done"
  /\ gen' = FreshGen
  /\ UNCHANGED <<store, clock, req, issued, nCrud>>

\* A finished invocation is looked at once, before anything else happens.
Delivered == gen.pc # "done" /\ \A r \in Reqs : req[r].pc # "done"

\* No handler is in flight.
Quiet == gen.pc = "idle" /\ \A r \in Reqs : req[r].pc = "idle"

Garbage == <<"s", "o", "o", "n">>

DeadBeef == <<"d", "e", "a", "d", "b", "e", "e", "f">>

\* What a holder of the three fields computes without the server: the
\* SHA-256 of "studentId:sessionId:timestamp".
PublicHash(studentId, sessionId, timestamp) ==
  SHA256(NumberToString(studentId) \o <<":">> \o NumberToString(sessionId)
         \o <<":">> \o timestamp)

Forge(studentId, sessionId, timestamp) ==
  [studentId |-> studentId, sessionId |-> sessionId, timestamp |-> timestamp,
   hash |-> PublicHash(studentId, sessionId, timestamp)]

\* The tokens over the given ids and timestamps, built without the issuer.
Forged(S, N, T) == {Forge(s, n, t) : s \in S, n \in N, t \in T}

\* Two bodies qrCodeSchema refuses: a studentId sent as a string, no hash.
Malformed ==
  {[Json(Forge(2, 1, toISOString(0))) EXCEPT !.types.studentId = "string"],
   [Json(Forge(2, 1, toISOString(0))) EXCEPT !.types.hash = "undefined"]}

\* Bodies presented to scan: the tokens Q as they are, the same with the
\* fingerprint "deadbeef", and the malformed ones.
BodiesOf(Q) ==
  {Json(qr) : qr \in Q} \cup {[Json(qr) EXCEPT !.hash = DeadBeef] : qr \in Q}
  \cup Malformed

\* Management requests: the course code, session date, student and ids sent.
PostCourseInputs == {"CSC301", "CSC304"}

PostSessionInputs == {<<4, 0>>, <<4, 24 * 60 * 60 * 1000>>, <<5, 0>>}

PostStudentInputs == {<<"student", "student@nutm.edu.ng">>, <<"ada", "ada@nutm.edu.ng">>}

PostEnrollmentInputs == {<<3, 1>>, <<3, 4>>, <<1, 1>>, <<2, 5>>}

DeleteCourseInputs == {1, 4, 5}

----------------------------------------------------------------------------
(* Specifications. *)

Init ==
  /\ users = SeedUsers(1, 2)
  /\ courses = SeedCourses
  /\ sessions = SeedSessions(0)
  /\ enrollments = SeedEnrollments(2)
  /\ attendance = {}
  /\ serial = [users |-> 2, courses |-> 3, sessions |-> 3, enrollments |-> 3,
               attendance |-> 0]
  /\ clock = 0
  /\ req = [r \in Reqs |-> FreshReq]
  /\ gen = FreshGen
  /\ issued = {}
  /\ nCrud = 0

\* Instants of the clock, ms: the start, 30 s on and 700 s on.
Times == {0, 30000, 700000}

\* Tokens presented in the serialized system: for the admin, the seeded
\* student and the first student an admin adds; for a seeded session, the
\* first session an admin adds and no session; dated the start, the end of
\* the model's time, and no date.
SeqTokens == Forged({1, 2, 3}, {1, 4, 9}, {toISOString(0), toISOString(700000), Garbage})

\* Requests are served one at a time: a handler starts when none is in flight.
NextSeq ==
  \/ ScanEnd(1)
  \/ Quiet /\ \E caller \in Callers : \E body \in BodiesOf(SeqTokens) :
       ScanStart(1, caller, body)
  \/ Delivered /\ ScanGetUser(1)
  \/ Delivered /\ ScanGetSession(1)
  \/ Delivered /\ ScanGetEnrollments(1)
  \/ Delivered /\ ScanGetAttendance(1)
  \/ Delivered /\ ScanCreateAttendance(1)
  \/ Delivered /\ ScanStoreError(1)
  \/ Quiet /\ \E caller \in Callers : \E code \in PostCourseInputs :
       PostCourse(caller, code)
  \/ Quiet /\ \E caller \in Callers : \E id \in DeleteCourseInputs :
       DeleteCourse(caller, id)
  \/ Quiet /\ \E caller \in Callers : \E in \in PostSessionInputs :
       PostSession(caller, in[1], in[2])
  \/ Quiet /\ \E caller \in Callers : \E in \in PostStudentInputs :
       PostStudent(caller, in[1], in[2])
  \/ Quiet /\ \E caller \in Callers : \E in \in PostEnrollmentInputs :
       PostEnrollment(caller, in[1], in[2])
  \/ Delivered /\ Tick(Times)

SpecSeq == Init /\ [][NextSeq]_vars

\* Instants around the end of the ten-minute window of a token dated the
\* start or 1 s on: to the second and to the millisecond.
ExpiryTimes == {0, 1000, 599000, 600000, 600001, 601000, 700000}

ExpiryTokens == Forged({2}, {1, 3}, {toISOString(0), toISOString(1000), Garbage})

\* The validator alone, one request at a time, against the seeded store.
NextExpiry ==
  \/ ScanEnd(1)
  \/ Quiet /\ \E caller \in Callers : \E body \in BodiesOf(ExpiryTokens) :
       ScanStart(1, caller, body)
  \/ Delivered /\ ScanGetUser(1)
  \/ Delivered /\ ScanGetSession(1)
  \/ Delivered /\ ScanGetEnrollments(1)
  \/ Delivered /\ ScanGetAttendance(1)
  \/ Delivered /\ ScanCreateAttendance(1)
  \/ Delivered /\ ScanStoreError(1)
  \/ Delivered /\ Tick(ExpiryTimes)

SpecExpiry == Init /\ [][NextExpiry]_vars

\* Instants of issuance and presentation: the start, 30 s on, the end of the
\* window of a token issued at the start, and 700 s on.
IssueTimes == {0, 30000, 600000, 700000}

\* Tokens built without the issuer, for the seeded student.
CraftedTokens == Forged({2}, {2}, {toISOString(0)})

\* Issuer and validator, one request at a time; an admin may add a course
\* and a session.
NextIssue ==
  \/ ScanEnd(1)
  \/ GenEnd
  \/ Quiet /\ \E caller \in Callers : \E body \in BodiesOf(issued \cup CraftedTokens) :
       ScanStart(1, caller, body)
  \/ Delivered /\ ScanGetUser(1)
  \/ Delivered /\ ScanGetSession(1)
  \/ Delivered /\ ScanGetEnrollments(1)
  \/ Delivered /\ ScanGetAttendance(1)
  \/ Delivered /\ ScanCreateAttendance(1)
  \/ Delivered /\ ScanStoreError(1)
  \/ Quiet /\ \E caller \in Callers : GenStart(caller)
  \/ Delivered /\ GenGetSessions
  \/ Delivered /\ GenStoreError
  \/ Quiet /\ \E caller \in Callers : PostCourse(caller, "CSC304")
  \/ Quiet /\ \E caller \in Callers : PostSession(caller, 4, 24 * 60 * 60 * 1000)
  \/ Delivered /\ Tick(IssueTimes)

SpecIssue == Init /\ [][NextIssue]_vars

\* Instants at which a token issued at 0 and one issued 30 s later are both
\* inside their windows, only the later one is, and neither is.
ReissueTimes == {0, 30000, 600000, 610000, 700000}

\* The issuer called more than once and the validator presented with the
\* tokens it returned, one request at a time, the store otherwise untouched.
NextReissue ==
  \/ ScanEnd(1)
  \/ GenEnd
  \/ Quiet /\ \E caller \in Callers : \E body \in BodiesOf(issued) :
       ScanStart(1, caller, body)
  \/ Delivered /\ ScanGetUser(1)
  \/ Delivered /\ ScanGetSession(1)
  \/ Delivered /\ ScanGetEnrollments(1)
  \/ Delivered /\ ScanGetAttendance(1)
  \/ Delivered /\ ScanCreateAttendance(1)
  \/ Delivered /\ ScanStoreError(1)
  \/ Quiet /\ \E caller \in Callers : GenStart(caller)
  \/ Delivered /\ GenGetSessions
  \/ Delivered /\ GenStoreError
  \/ Delivered /\ Tick(ReissueTimes)

SpecReissue == Init /\ [][NextReissue]_vars

\* seedDatabaseIfEmpty is started by the constructor and not awaited: the
\* server answers requests while the seed rows are inserted one by one.
\* After the users and the courses, at const now = new Date():
InitSeeding ==
  /\ users = SeedUsers(1, 2)
  /\ courses = SeedCourses
  /\ sessions = {}
  /\ enrollments = {}
  /\ attendance = {}
  /\ serial = [users |-> 2, courses |-> 3, sessions |-> 0, enrollments |-> 0,
               attendance |-> 0]
  /\ clock = 0
  /\ req = [r \in Reqs |-> FreshReq]
  /\ gen = FreshGen
  /\ issued = {}
  /\ nCrud = 0

\* The next await this.createSession(...) of the seed resolves.
SeedCreateSession ==
  /\ serial.sessions < Cardinality(SeedSessions(0))
  /\ \E row \in SeedSessions(0) :
       /\ row.id = serial.sessions + 1
       /\ createSession([courseId |-> row.courseId, date |-> row.date])
  /\ UNCHANGED <<clock, req, gen, issued, nCrud>>

\* The next await this.createEnrollment(...) of the seed resolves.
SeedCreateEnrollment ==
  /\ serial.sessions >= Cardinality(SeedSessions(0))
  /\ serial.enrollments < Cardinality(SeedEnrollments(2))
  /\ \E row \in SeedEnrollments(2) :
       /\ row.id = serial.enrollments + 1
       /\ createEnrollment([studentId |-> row.studentId, courseId |-> row.courseId])
  /\ UNCHANGED <<clock, req, gen, issued, nCrud>>

\* The seed has inserted its last row.
Seeded == serial.enrollments >= Cardinality(SeedEnrollments(2))

\* The issuer while the store is seeded and after; once it is seeded an
\* admin adds a course and sessions.
NextSeed ==
  \/ GenEnd
  \/ Delivered /\ SeedCreateSession
  \/ Delivered /\ SeedCreateEnrollment
  \/ Quiet /\ \E caller \in Callers : GenStart(caller)
  \/ Delivered /\ GenGetSessions
  \/ Delivered /\ GenStoreError
  \/ Quiet /\ Seeded /\ \E caller \in Callers : PostCourse(caller, "CSC304")
  \/ Quiet /\ Seeded /\ \E caller \in Callers : \E i \in PostSessionInputs :
       PostSession(caller, i[1], i[2])
  \/ Delivered /\ Tick(Times)

SpecSeed == InitSeeding /\ [][NextSeed]_vars

\* Issuer and validator, one scan at a time, while an admin adds a student
\* and enrolls her: the enrollment may arrive between two awaits of a scan.
NextEnroll ==
  \/ ScanEnd(1)
  \/ GenEnd
  \/ Quiet /\ \E caller \in Callers : \E body \in BodiesOf(issued) :
       ScanStart(1, caller, body)
  \/ Delivered /\ ScanGetUser(1)
  \/ Delivered /\ ScanGetSession(1)
  \/ Delivered /\ ScanGetEnrollments(1)
  \/ Delivered /\ ScanGetAttendance(1)
  \/ Delivered /\ ScanCreateAttendance(1)
  \/ Delivered /\ ScanStoreError(1)
  \/ Quiet /\ \E caller \in Callers : GenStart(caller)
  \/ Delivered /\ GenGetSessions
  \/ Delivered /\ GenStoreError
  \/ Delivered /\ \E caller \in Callers : PostStudent(caller, "ada", "ada@nutm.edu.ng")
  \/ Delivered /\ \E caller \in Callers : PostEnrollment(caller, 3, 1)
  \/ Delivered /\ Tick(Times)

SpecEnroll == Init /\ [][NextEnroll]_vars

\* Tokens for the admin, the seeded student and the first student added, for
\* a seeded session and the first session added.
IntegrityTokens == Forged({1, 2, 3}, {1, 4}, {toISOString(0)})

PutCourseInputs == {<<1, "CSC399">>, <<1, "CSC302">>}

\* The validator, one scan at a time, while the admin manages courses,
\* sessions, students and enrollments between any two of its awaits.
NextIntegrity ==
  \/ ScanEnd(1)
  \/ Quiet /\ \E caller \in Callers : \E body \in BodiesOf(IntegrityTokens) :
       ScanStart(1, caller, body)
  \/ Delivered /\ ScanGetUser(1)
  \/ Delivered /\ ScanGetSession(1)
  \/ Delivered /\ ScanGetEnrollments(1)
  \/ Delivered /\ ScanGetAttendance(1)
  \/ Delivered /\ ScanCreateAttendance(1)
  \/ Delivered /\ ScanStoreError(1)
  \/ Delivered /\ \E caller \in Callers : PostCourse(caller, "CSC304")
  \/ Delivered /\ \E caller \in Callers : \E in \in PutCourseInputs :
       PutCourse(caller, in[1], in[2])
  \/ Delivered /\ \E caller \in Callers : DeleteCourse(caller, 1)
  \/ Delivered /\ \E caller \in Callers : PostSession(caller, 1, 0)
  \/ Delivered /\ \E caller \in Callers : PostStudent(caller, "ada", "ada@nutm.edu.ng")
  \/ Delivered /\ \E caller \in Callers : \E in \in PostEnrollmentInputs :
       PostEnrollment(caller, in[1], in[2])

SpecIntegrity == Init /\ [][NextIntegrity]_vars

\* req.session.token of a request: none, or the token a login of a user at
\* the start gave.
SessionTokens == {{}} \cup {{generateToken(u.id, u.role, 0)} : u \in users}

\* The start, 30 s on, and the first instant a token of the start is expired.
TokenTimes == {0, 30000, OneDay + 1}

\* The session-token version of issuer and validator, one request at a time.
NextToken ==
  \/ ScanEnd(1)
  \/ GenEnd
  \/ Quiet /\ \E token \in SessionTokens : \E body \in BodiesOf(issued \cup CraftedTokens) :
       TokenScanStart(1, token, body)
  \/ Delivered /\ ScanGetUser(1)
  \/ Delivered /\ ScanGetSession(1)
  \/ Delivered /\ ScanGetEnrollments(1)
  \/ Delivered /\ ScanGetAttendance(1)
  \/ Delivered /\ ScanCreateAttendance(1)
  \/ Delivered /\ ScanStoreError(1)
  \/ Quiet /\ \E token \in SessionTokens : TokenGenStart(token)
  \/ Delivered /\ GenGetSessions
  \/ Delivered /\ TokenGenStoreError
  \/ Delivered /\ Tick(TokenTimes)

SpecToken == Init /\ [][NextToken]_vars

\* Tokens presented in the concurrent system: for the seeded student and the
\* first student an admin adds, for a seeded session, dated the start or not
\* dated.
RaceTokens == Forged({2, 3}, {1}, {toISOString(0)})

RaceTimes == {0, 700000}

\* Handlers interleave at their awaits.
Next ==
  \/ \E r \in Reqs : ScanEnd(r)
  \/ Delivered /\ \E r \in Reqs : \E caller \in Callers :
       \E body \in BodiesOf(RaceTokens) : ScanStart(r, caller, body)
  \/ Delivered /\ \E r \in Reqs : ScanGetUser(r)
  \/ Delivered /\ \E r \in Reqs : ScanGetSession(r)
  \/ Delivered /\ \E r \in Reqs : ScanGetEnrollments(r)
  \/ Delivered /\ \E r \in Reqs : ScanGetAttendance(r)
  \/ Delivered /\ \E r \in Reqs : ScanCreateAttendance(r)
  \/ Delivered /\ \E r \in Reqs : ScanStoreError(r)
  \/ Delivered /\ \E caller \in Callers : PostStudent(caller, "ada", "ada@nutm.edu.ng")
  \/ Delivered /\ \E caller \in Callers : PostEnrollment(caller, 3, 1)
  \/ Delivered /\ Tick(RaceTimes)

Spec == Init /\ [][Next]_vars

\* Ids and timestamps of the tokens whose fields are changed one at a time.
CodecStudentIds == {1, 2, 12}

CodecSessionIds == {1, 2, 21}

CodecTimestamps == {toISOString(0), toISOString(30000), Garbage}

\* The tokens the codec makes over those fields.
CodecTokens ==
  {[studentId |-> s, sessionId |-> n, timestamp |-> t, hash |-> generateQRHash(s, n, t)] :
     s \in CodecStudentIds, n \in CodecSessionIds, t \in CodecTimestamps}

\* A token with one of the three fields replaced and the hash kept.
Tamperings(qr) ==
  {[qr EXCEPT !.studentId = s] : s \in CodecStudentIds \ {qr.studentId}}
  \cup {[qr EXCEPT !.sessionId = n] : n \in CodecSessionIds \ {qr.sessionId}}
  \cup {[qr EXCEPT !.timestamp = t] : t \in CodecTimestamps \ {qr.timestamp}}

CodecBodies == {Json(qr) : qr \in CodecTokens \cup UNION {Tamperings(qr) : qr \in CodecTokens}}

\* The validator's fingerprint check on those tokens, changed and unchanged.
NextCodec ==
  \/ ScanEnd(1)
  \/ Quiet /\ \E caller \in Callers : \E body \in CodecBodies : ScanStart(1, caller, body)
  \/ Delivered /\ ScanGetUser(1)
  \/ Delivered /\ Tick(Times)

SpecCodec == Init /\ [][NextCodec]_vars

----------------------------------------------------------------------------
(* The checks of the validator as the design states them, over the tables  *)
(* an invocation found when it started.                                    *)

SchemaOk(b) == b.types = WellTyped

FingerprintOk(b) == b.hash = generateQRHash(b.studentId, b.sessionId, b.timestamp)

\* now - parse(issuedAt) > 600000 fails the token.
WithinWindow(b, now) == ~Greater(Minus(Num(now), DateParse(b.timestamp)), Num(600000))

StudentOk(b, t) == \E u \in t.users : u.id = b.studentId /\ u.role = "student"

SessionOk(b, t) == \E n \in t.sessions : n.id = b.sessionId

EnrolledOk(b, t) ==
  \E n \in t.sessions : \E e \in t.enrollments :
    n.id = b.sessionId /\ e.studentId = b.studentId /\ e.courseId = n.courseId

Recorded(b, t) ==
  \E a \in t.attendance : a.studentId = b.studentId /\ a.sessionId = b.sessionId

\* The reason of the first failing check in the order fingerprint, expiry,
\* student, session, enrollment, duplicate; "" when none fails.
FirstFailure(b, now, t) ==
  IF ~FingerprintOk(b) THEN "Invalid QR code"
  ELSE IF ~WithinWindow(b, now) THEN "QR code expired"
  ELSE IF ~StudentOk(b, t) THEN "Student not found"
  ELSE IF ~SessionOk(b, t) THEN "Session not found"
  ELSE IF ~EnrolledOk(b, t) THEN "Student not enrolled in this course"
  ELSE IF Recorded(b, t) THEN "Attendance already recorded"
  ELSE ""

\* An invocation an admin made with a body the schema accepts, that has
\* answered, no store call of it having failed.
Answered(q) == q.pc = "done" /\ q.admitted /\ SchemaOk(q.body) /\ q.res.status # 500

----------------------------------------------------------------------------
(* C1 *)

\* C1: in every reachable state, under any interleaving of scan requests,
\* there is at most one attendance record per (studentId, sessionId) pair.
C1_AtMostOneRecordPerPair ==
  \A a \in attendance : \A b \in attendance :
    (a.studentId = b.studentId /\ a.sessionId = b.sessionId) => a = b

----------------------------------------------------------------------------
(* C2, C3, C7: the serialized system. *)

\* C2: with scans served one at a time, once a record exists for
\* (studentId, sessionId), a later scan for the pair that passes the checks
\* of fingerprint, expiry, student, session and enrollment is answered
\* 'Attendance already recorded' and adds no record, whether its token is
\* the one that was committed or another one.
C2_SecondScanRejected ==
  LET q == req[1]
  IN  (/\ Answered(q)
       /\ FingerprintOk(q.body) /\ WithinWindow(q.body, q.now)
       /\ StudentOk(q.body, q.pre) /\ SessionOk(q.body, q.pre)
       /\ EnrolledOk(q.body, q.pre)
       /\ Recorded(q.body, q.pre))
      => (/\ q.res.status = 400
          /\ q.res.message = "Attendance already recorded"
          /\ attendance = q.pre.attendance)

\* The committed token itself is presented again and refused.
C2_Witness_SameToken ==
  LET q == req[1]
  IN  /\ Answered(q)
      /\ q.res.message = "Attendance already recorded"
      /\ \E a \in attendance : a.studentId = q.body.studentId
                               /\ a.sessionId = q.body.sessionId
                               /\ a.qrCode = q.body.hash
      /\ Cardinality(attendance) = 1

\* C3: the rejection scan returns is the reason of the first failing check
\* in the order fingerprint, expiry, student, session, enrollment, duplicate;
\* a token whose hash is not the recomputed one is answered 'Invalid QR
\* code' whatever else is wrong with it.
C3_FirstFailingCheck ==
  LET q == req[1]
  IN  Answered(q) =>
        /\ q.res.status = 400 => q.res.message = FirstFailure(q.body, q.now, q.pre)
        /\ FirstFailure(q.body, q.now, q.pre) # "" => q.res.status = 400
        /\ ~FingerprintOk(q.body) => q.res.message = "Invalid QR code"

\* A token with a wrong hash that is also expired, names the admin and names
\* no session.
C3_Witness_EverythingWrong ==
  LET q == req[1]
  IN  /\ Answered(q)
      /\ q.res.message = "Invalid QR code"
      /\ ~WithinWindow(q.body, q.now)
      /\ ~StudentOk(q.body, q.pre)
      /\ ~SessionOk(q.body, q.pre)

\* C7: a token with a correct hash, within the window, for an existing
\* student and an existing session is answered 'Student not enrolled in this
\* course' and adds no record when the student has no enrollment in the
\* session's course, whatever other enrollments the student has.
C7_EnrollmentGating ==
  LET q == req[1]
  IN  (/\ Answered(q)
       /\ FingerprintOk(q.body) /\ WithinWindow(q.body, q.now)
       /\ StudentOk(q.body, q.pre) /\ SessionOk(q.body, q.pre)
       /\ ~EnrolledOk(q.body, q.pre))
      => (/\ q.res.status = 400
          /\ q.res.message = "Student not enrolled in this course"
          /\ attendance = q.pre.attendance)

\* The student is enrolled in three other courses.
C7_Witness_EnrolledElsewhere ==
  LET q == req[1]
  IN  /\ Answered(q)
      /\ q.res.message = "Student not enrolled in this course"
      /\ Cardinality({e \in enrollments : e.studentId = q.body.studentId}) = 3

----------------------------------------------------------------------------
(* C4, C6: the validator against the seeded store. *)

\* C4: a record is created by scan only if in that invocation all six
\* checks passed: the hash equals generateQRHash of the three fields,
\* now - timestamp <= 600000 ms, the user exists with role 'student', the
\* session exists, the student has an enrollment in the session's course,
\* and the duplicate read found no record for the pair.
C4_CommitOnlyAfterSixChecks ==
  LET q == req[1]
  IN  (Answered(q) /\ q.res.status = 201) =>
        /\ FingerprintOk(q.body)
        /\ AtMost(Minus(Num(q.now), DateParse(q.body.timestamp)), Num(600000))
        /\ StudentOk(q.body, q.pre)
        /\ SessionOk(q.body, q.pre)
        /\ EnrolledOk(q.body, q.pre)
        /\ ~Recorded(q.body, q.pre)

\* C6: with diff = validator clock - token timestamp, a token with diff =
\* 599000 passes the expiry check, one with diff = 601000 or 700000 is
\* answered 'QR code expired', and the boundary is inclusive: diff = 600000
\* passes, diff = 600001 fails.
C6_ExpiryBoundary ==
  LET q == req[1]
      diff == Minus(Num(q.now), DateParse(q.body.timestamp))
  IN  (/\ q.pc # "idle" /\ q.admitted /\ SchemaOk(q.body) /\ FingerprintOk(q.body)
       /\ ~diff.nan)
      => /\ diff.v <= 600000 => q.res.message # "QR code expired"
         /\ diff.v > 600000 => q.pc = "done" /\ q.res.status = 400
                                /\ q.res.message = "QR code expired"
         /\ diff.v \in {599000, 600000} => q.pc \in Suspended \/ q.res.status # 400
                                           \/ q.res.message # "QR code expired"
         /\ diff.v \in {600001, 601000, 700000} => q.res.message = "QR code expired"

\* A token presented exactly 600000 ms after its timestamp has passed the
\* expiry check and waits for the student lookup.
C6_Witness_BoundaryPasses ==
  LET q == req[1]
  IN  /\ q.pc = "getUser"
      /\ FingerprintOk(q.body)
      /\ Minus(Num(q.now), DateParse(q.body.timestamp)) = Num(600000)

----------------------------------------------------------------------------
(* C5: the frame of a rejected scan. *)

\* C5: a scan invocation that ends in a rejection (401, 403, a schema
\* error, one of the six reasons, a server error) has changed no table: no
\* step of an invocation other than the one that answers 201 changes users,
\* courses, sessions, enrollments or attendance.
C5_RejectionChangesNothing ==
  [][\A r \in Reqs :
       (req'[r] # req[r] /\ req'[r].res.status # 201)
       => UNCHANGED <<users, courses, sessions, enrollments, attendance, serial>>]_vars

\* A scan has been refused as a duplicate, after its four reads.
C5_Witness_RejectedAfterReads ==
  \E r \in Reqs :
    /\ req[r].pc = "done"
    /\ req[r].res.status = 400
    /\ req[r].res.message = "Attendance already recorded"
    /\ attendance # {}

----------------------------------------------------------------------------
(* C8, C10: issuer and validator. *)

\* C8: a token the issuer returned to a student, presented unchanged by an
\* admin at most 600 s after its timestamp, the student being enrolled in
\* the course of the token's session and having no record for the session,
\* is answered 201 and adds exactly one record, for that student and
\* session (no other request running meanwhile, no store call failing).
C8_IssuedTokenAccepted ==
  LET q == req[1]
  IN  (/\ Answered(q)
       /\ qrDataOf(q.body) \in issued
       /\ AtMost(Minus(Num(q.now), DateParse(q.body.timestamp)), Num(600000))
       /\ EnrolledOk(q.body, q.pre)
       /\ ~Recorded(q.body, q.pre))
      => (/\ q.res.status = 201
          /\ Cardinality(q.res.attendance) = 1
          /\ attendance = q.pre.attendance \cup q.res.attendance
          /\ \A a \in q.res.attendance :
               /\ a \notin q.pre.attendance
               /\ a.studentId = q.body.studentId
               /\ a.sessionId = q.body.sessionId
          /\ Cardinality({a \in attendance : a.studentId = q.body.studentId
                                             /\ a.sessionId = q.body.sessionId}) = 1)

\* An issued token is accepted 30 s or more after it was issued.
C8_Witness_AcceptedLater ==
  LET q == req[1]
  IN  /\ Answered(q)
      /\ q.res.status = 201
      /\ qrDataOf(q.body) \in issued
      /\ q.now >= DateParse(q.body.timestamp).v + 30000

\* C10: the fingerprint binds no server secret: a token built from a
\* studentId, a sessionId and a timestamp string with the public hash alone,
\* issued or not, passes the fingerprint check of scan.
C10_ForgedFingerprintPasses ==
  LET q == req[1]
  IN  (/\ q.pc # "idle" /\ q.admitted /\ SchemaOk(q.body)
       /\ q.body.hash = PublicHash(q.body.studentId, q.body.sessionId, q.body.timestamp))
      => q.res.message # "Invalid QR code"

\* A record is committed whose fingerprint is that of no issued token, a
\* token having been issued.
C10_Witness_CommittedNotIssued ==
  /\ issued # {}
  /\ \E a \in attendance : \A qr \in issued : qr.hash # a.qrCode

----------------------------------------------------------------------------
(* C9: the codec. *)

\* C9: for every token whose hash is generateQRHash of its fields, changing
\* exactly one of studentId, sessionId, timestamp and keeping the hash makes
\* the fingerprint check of scan fail.
C9_TamperDetected ==
  LET q == req[1]
  IN  (/\ q.pc # "idle" /\ q.admitted /\ SchemaOk(q.body)
       /\ \E qr \in CodecTokens : qrDataOf(q.body) \in Tamperings(qr))
      => (/\ q.pc = "done"
          /\ q.res.status = 400
          /\ q.res.message = "Invalid QR code")

\* A token with only its timestamp changed is refused.
C9_Witness_TimestampChanged ==
  LET q == req[1]
  IN  /\ q.pc = "done" /\ q.admitted
      /\ q.res.message = "Invalid QR code"
      /\ \E qr \in CodecTokens :
           /\ q.body.timestamp # qr.timestamp
           /\ qrDataOf(q.body) = [qr EXCEPT !.timestamp = q.body.timestamp]

----------------------------------------------------------------------------
(* C11: the frame of the issuer. *)

\* C11: no step of a generate-qr invocation, whether it ends with a token,
\* a 401/403, a 404 or a 500, changes users, courses, sessions, enrollments
\* or attendance (or a serial): the server keeps no record of the token.
C11_IssuanceChangesNothing ==
  [][gen' # gen => UNCHANGED store]_vars

\* A token has been returned, after an admin changed the store.
C11_Witness_TokenReturned ==
  /\ gen.pc = "done"
  /\ gen.status = 200
  /\ gen.qrData # {}
  /\ nCrud > 0

----------------------------------------------------------------------------
(* C12: two tokens for one student and session. *)

\* The tokens issued for the pair of b other than b itself.
Siblings(b) ==
  {qr \in issued : /\ qr.studentId = b.studentId /\ qr.sessionId = b.sessionId
                   /\ qr # qrDataOf(b)}

\* C12: a second token for the same student and session does not invalidate
\* the first: either of the two, presented unchanged at most 600 s after its
\* own timestamp, passes the fingerprint and the expiry check, and is then
\* recorded if the pair has no record yet and refused as a duplicate if the
\* other was recorded first.
C12_NoSingleActiveToken ==
  LET q == req[1]
  IN  (/\ Answered(q)
       /\ qrDataOf(q.body) \in issued
       /\ Siblings(q.body) # {}
       /\ AtMost(Minus(Num(q.now), DateParse(q.body.timestamp)), Num(600000)))
      => /\ q.res.message \notin {"Invalid QR code", "QR code expired"}
         /\ (EnrolledOk(q.body, q.pre) /\ ~Recorded(q.body, q.pre))
            => /\ q.res.status = 201
               /\ \A a \in q.res.attendance : a.qrCode = q.body.hash
         /\ Recorded(q.body, q.pre)
            => /\ q.res.message = "Attendance already recorded"
               /\ attendance = q.pre.attendance

\* The token issued second was presented first and is the one recorded; the
\* token issued first, presented after it inside its own window, passed
\* both checks and was refused as a duplicate only.
C12_Witness_SecondTokenFirst ==
  LET q == req[1]
  IN  /\ Answered(q)
      /\ qrDataOf(q.body) \in issued
      /\ q.res.message = "Attendance already recorded"
      /\ \E qr \in Siblings(q.body) :
           /\ Greater(DateParse(qr.timestamp), DateParse(q.body.timestamp))
           /\ \E a \in attendance : a.qrCode = qr.hash

----------------------------------------------------------------------------
(* C13: the session the issuer chooses. *)

\* C13: generate-qr, called by a student and its store call not failing,
\* answers 404 'No active sessions found' exactly when the store holds no
\* session; otherwise it answers 200 with a token for a session no session
\* of the store is dated after, whatever the student is enrolled in.
C13_IssuerResult ==
  (gen.pc = "done" /\ gen.status \notin {401, 403, 500})
  => /\ gen.status = 404 <=> sessions = {}
     /\ gen.status = 404 => gen.message = "No active sessions found" /\ gen.qrData = {}
     /\ sessions # {}
        => /\ gen.status = 200
           /\ Cardinality(gen.qrData) = 1
           /\ \A qr \in gen.qrData :
                /\ qr.studentId = gen.studentId
                /\ \E s \in sessions :
                     s.id = qr.sessionId /\ \A t \in sessions : s.date >= t.date

\* The token is for the session dated last, of a course the student, who
\* is enrolled in three others, is not enrolled in, and not the first row.
C13_Witness_LatestNotEnrolled ==
  /\ gen.pc = "done"
  /\ gen.status = 200
  /\ \E qr \in gen.qrData : \E s \in sessions :
       /\ s.id = qr.sessionId
       /\ \E t \in sessions : t.id < s.id /\ t.date < s.date
       /\ getEnrollmentsByStudent(qr.studentId) # {}
       /\ \A e \in getEnrollmentsByStudent(qr.studentId) : e.courseId # s.courseId

----------------------------------------------------------------------------
(* C14: issuer and validator agree on the fingerprint. *)

\* C14: every token generate-qr returns carries the timestamp the handler
\* took once at its start and the SHA-256 of "studentId:sessionId:timestamp"
\* over the very fields it carries; presented unchanged, it is never
\* answered 'Invalid QR code'.
C14_RoundTrip ==
  /\ \A qr \in issued : qr.hash = PublicHash(qr.studentId, qr.sessionId, qr.timestamp)
  /\ (gen.pc = "done" /\ gen.status = 200)
     => \A qr \in gen.qrData :
          /\ qr \in issued
          /\ qr.timestamp = gen.timestamp
          /\ ~HashMismatch(qr)
  /\ LET q == req[1]
     IN  (q.pc # "idle" /\ q.admitted /\ SchemaOk(q.body) /\ qrDataOf(q.body) \in issued)
         => q.res.message # "Invalid QR code"

\* An issued token, presented later than its timestamp, is past the
\* fingerprint check.
C14_Witness_PastFingerprint ==
  LET q == req[1]
  IN  /\ q.pc = "getUser"
      /\ qrDataOf(q.body) \in issued
      /\ DateParse(q.body.timestamp).v < q.now

----------------------------------------------------------------------------
(* C15: the outcomes of a scan. *)

\* The messages of the six named rejections.
SixMessages ==
  {"Invalid QR code", "QR code expired", "Student not found", "Session not found",
   "Student not enrolled in this course", "Attendance already recorded"}

\* The response is the created record.
IsCreated(q) ==
  /\ q.res.status = 201
  /\ q.res.message = "Attendance recorded successfully"
  /\ Cardinality(q.res.attendance) = 1
  /\ q.res.attendance \subseteq attendance

\* The response is one of the six named rejections.
IsNamedRejection(q) ==
  /\ q.res.status = 400
  /\ q.res.message \in SixMessages
  /\ q.res.attendance = {}

\* C15 as stated: every scan invocation by an authenticated admin ends in
\* the created record or in one of the six named rejections, nothing else.
C15_OnlySevenOutcomes ==
  LET q == req[1]
  IN  (q.pc = "done" /\ q.admitted) => (IsCreated(q) \/ IsNamedRejection(q))

\* C15, amended: a scan invocation by an authenticated admin has no
\* response while it runs and exactly one when it has ended: the created
\* record or one of the six named rejections if its body passes the payload
\* schema and no store call fails; a 400 with the schema's message, none of
\* the six, if the body does not pass; 500 'Server error' if a store call
\* fails.
C15_OutcomesOfScan ==
  LET q == req[1]
  IN  /\ (q.pc # "done") => q.res = NoRes
      /\ (q.pc = "done" /\ q.admitted)
         => /\ ~(IsCreated(q) /\ IsNamedRejection(q))
            /\ IF ~SchemaOk(q.body)
               THEN /\ q.res.status = 400
                    /\ q.res.message = ZodMessage(q.body)
                    /\ q.res.message \notin SixMessages
               ELSE IF q.res.status = 500
               THEN q.res.message = "Server error" /\ q.res.attendance = {}
               ELSE IsCreated(q) \/ IsNamedRejection(q)

\* An admin's scan has ended with the named rejection of a missing session.
C15_Witness_NamedRejection ==
  LET q == req[1]
  IN  /\ Answered(q)
      /\ IsNamedRejection(q)
      /\ q.res.message = "Session not found"

----------------------------------------------------------------------------
(* C16: who is served. *)

\* The caller is logged in with the given role.
HasRole(caller, role) == \E u \in caller : u.role = role

\* The answer of a middleware that turned the caller away.
TurnedAway(caller, status, message) ==
  IF caller = {} THEN status = 401 /\ message = "Not authenticated"
  ELSE status = 403 /\ message = "Not authorized"

----------------------------------------------------------------------------
(* C17: timestamps that are no dates. *)

\* C17: a scan presenting a token whose timestamp does not parse as a date
\* never commits a record: it is not answered 201 and leaves the attendance
\* table as it found it.
C17_UnparseableNeverCommits ==
  LET q == req[1]
  IN  (q.pc = "done" /\ q.admitted /\ SchemaOk(q.body)
       /\ DateParse(q.body.timestamp).nan)
      => /\ q.res.status # 201
         /\ attendance = q.pre.attendance

----------------------------------------------------------------------------
(* C18: the attendance table. *)

\* C18: attendance is append-only with one producer: every row of the table
\* is in it, with the same id, studentId, sessionId, timestamp and qrCode,
\* after every step; the table changes only by the commit step of scan,
\* which adds the one row it answers with, under an id no row had.
C18_AppendOnlySingleProducer ==
  [][/\ attendance \subseteq attendance'
     /\ attendance' # attendance
        => \E r \in Reqs :
             /\ req[r].pc = "createAttendance"
             /\ req'[r].pc = "done"
             /\ req'[r].res.status = 201
             /\ Cardinality(req'[r].res.attendance) = 1
             /\ attendance' = attendance \cup req'[r].res.attendance
             /\ \A a \in req'[r].res.attendance : \A b \in attendance : a.id # b.id
    ]_vars

\* A record is still in the table after the course of its session was
\* deleted.
C18_Witness_SurvivesCourseDelete ==
  \E a \in attendance : \E n \in sessions :
    /\ n.id = a.sessionId
    /\ getCourse(n.courseId) = {}

----------------------------------------------------------------------------
(* C19: what a scan reads. *)

\* C19: what a scan decides at each of its store reads is decided by the
\* tables as they are at that read, for a token of any origin: the student
\* check by the users, the session check by the sessions, the enrollment
\* check by the enrollments, the duplicate check by the attendance of that
\* moment; the state of the store when the token was issued plays no part.
C19_DecidedByCurrentStore ==
  [][LET q == req[1]
         p == req'[1]
     IN  (q.pc \in Suspended /\ p # q /\ p.res.status # 500)
         => /\ q.pc = "getUser"
               => IF StudentOk(q.body, Snapshot) THEN p.pc = "getSession"
                  ELSE p.res.message = "Student not found"
            /\ q.pc = "getSession"
               => IF SessionOk(q.body, Snapshot) THEN p.pc = "getEnrollmentsByStudent"
                  ELSE p.res.message = "Session not found"
            /\ q.pc = "getEnrollmentsByStudent"
               => IF EnrolledOk(q.body, Snapshot) THEN p.pc = "getAttendanceBySession"
                  ELSE p.res.message = "Student not enrolled in this course"
            /\ q.pc = "getAttendanceBySession"
               => IF ~Recorded(q.body, Snapshot) THEN p.pc = "createAttendance"
                  ELSE p.res.message = "Attendance already recorded"
            /\ q.pc = "createAttendance" => p.res.status = 201
    ]_vars

\* A token issued to a student who was not enrolled, and still was not when
\* the scan began, is recorded: the enrollment arrived before the scan read
\* the enrollments.
C19_Witness_EnrolledDuringScan ==
  LET q == req[1]
  IN  /\ Answered(q)
      /\ q.res.status = 201
      /\ qrDataOf(q.body) \in issued
      /\ ~EnrolledOk(q.body, q.pre)

----------------------------------------------------------------------------
(* C20: reasons and messages. *)

\* The six reasons of the design and the message the handler sends for each.
MessageOf ==
  [InvalidToken    |-> "Invalid QR code",
   TokenExpired    |-> "QR code expired",
   StudentNotFound |-> "Student not found",
   SessionNotFound |-> "Session not found",
   NotEnrolled     |-> "Student not enrolled in this course",
   AlreadyRecorded |-> "Attendance already recorded"]

\* The reason a scan of body b at instant now over the tables t is refused
\* for, "None" when it is not.
ReasonOf(b, now, t) ==
  IF ~FingerprintOk(b) THEN "InvalidToken"
  ELSE IF ~WithinWindow(b, now) THEN "TokenExpired"
  ELSE IF ~StudentOk(b, t) THEN "StudentNotFound"
  ELSE IF ~SessionOk(b, t) THEN "SessionNotFound"
  ELSE IF ~EnrolledOk(b, t) THEN "NotEnrolled"
  ELSE IF Recorded(b, t) THEN "AlreadyRecorded"
  ELSE "None"

\* C20: the six reasons have six pairwise distinct messages, and a scan
\* refused for a reason is always answered 400 with the message of that
\* reason and no other.
C20_ReasonsAndMessages ==
  /\ \A r1, r2 \in DOMAIN MessageOf : MessageOf[r1] = MessageOf[r2] => r1 = r2
  /\ Cardinality(DOMAIN MessageOf) = 6
  /\ LET q == req[1]
         reason == ReasonOf(q.body, q.now, q.pre)
     IN  Answered(q)
         => IF reason = "None" THEN q.res.status = 201
            ELSE /\ q.res.status = 400
                 /\ q.res.message = MessageOf[reason]
                 /\ \A r \in DOMAIN MessageOf :
                      q.res.message = MessageOf[r] => r = reason

\* A token naming the admin as student is refused with the message of a
\* student that does not exist.
C20_Witness_AdminAsStudent ==
  LET q == req[1]
  IN  /\ Answered(q)
      /\ \E u \in q.pre.users : u.id = q.body.studentId /\ u.role = "admin"
      /\ q.res.message = MessageOf["StudentNotFound"]

----------------------------------------------------------------------------
(* C21: failing store calls. *)

\* C21: a store call that fails during generate-qr or scan is answered
\* with one typed error, 500 'Server error', and creates no record: no
\* invocation ends with nothing sent, or with an error the application did
\* not write.
C21_NoUncaughtFault ==
  /\ gen.pc = "done"
     => /\ gen.status # 0
        /\ gen.status = 500 => gen.message = "Server error" /\ gen.qrData = {}
  /\ \A r \in Reqs :
       req[r].pc = "done"
       => /\ req[r].res.status # 0
          /\ req[r].res.status = 500
             => /\ req[r].res.message = "Server error"
                /\ req[r].res.attendance = {}
                /\ attendance = req[r].pre.attendance

----------------------------------------------------------------------------
(* C22: the codec is a function. *)

\* C22: generateQRHash called again with the inputs of an earlier call
\* returns the fingerprint of that call, whatever the clock and the store
\* have become since: every token ever returned still carries the hash of
\* its fields, and two tokens with the same three fields the same hash.
C22_CodecDeterministic ==
  /\ \A qr \in issued : generateQRHash(qr.studentId, qr.sessionId, qr.timestamp) = qr.hash
  /\ \A a, b \in issued :
       (a.studentId = b.studentId /\ a.sessionId = b.sessionId
        /\ a.timestamp = b.timestamp) => a.hash = b.hash

\* A token was returned; since then the clock has moved on, an admin has
\* changed the store and a record was committed.
C22_Witness_LaterState ==
  /\ \E qr \in issued : DateParse(qr.timestamp).v < clock
  /\ nCrud > 0
  /\ attendance # {}

----------------------------------------------------------------------------
(* C23: the committed record. *)

\* C23: the record a scan commits carries the studentId and sessionId of
\* the presented token, its hash as qrCode, and as timestamp the server
\* clock read when the handler calls createAttendance (not before the expiry
\* check read it, not after the answer), whatever timestamp the token names.
C23_CommittedRecord ==
  LET q == req[1]
  IN  (Answered(q) /\ q.res.status = 201)
      => /\ Cardinality(q.res.attendance) = 1
         /\ \A a \in q.res.attendance :
              /\ a \in attendance
              /\ a.studentId = q.body.studentId
              /\ a.sessionId = q.body.sessionId
              /\ a.qrCode = q.body.hash
              /\ a.timestamp = q.stamp
              /\ q.now <= a.timestamp
              /\ a.timestamp <= clock

\* The clock moved during the scan: the record is stamped later than the
\* expiry check read the clock, and later than the token's timestamp.
C23_Witness_StampedAtCommit ==
  LET q == req[1]
  IN  /\ Answered(q)
      /\ q.res.status = 201
      /\ \A a \in q.res.attendance :
           /\ a.timestamp > q.now
           /\ Greater(Num(q.now), DateParse(q.body.timestamp))

----------------------------------------------------------------------------
(* C24: the store calls of one scan. *)

\* The store calls of scan in the order the handler makes them.
StoreCalls == <<"getUser", "getSession", "getEnrollmentsByStudent",
                "getAttendanceBySession", "createAttendance">>

\* The call at which an invocation is suspended, 0 when at none.
CallIndex(pc) ==
  IF \E i \in DOMAIN StoreCalls : StoreCalls[i] = pc
  THEN CHOOSE i \in DOMAIN StoreCalls : StoreCalls[i] = pc
  ELSE 0

\* C24: a scan invocation has one store call outstanding at a time and
\* makes them in the order getUser, getSession, getEnrollmentsByStudent,
\* getAttendanceBySession, createAttendance: from a call it goes to the next
\* one or ends; after a failed check it ends without another call; it
\* writes the store only when createAttendance, its last call, resolves.
C24_StoreCallOrder ==
  [][\A r \in Reqs :
       LET q == req[r]
           p == req'[r]
       IN  p.pc # q.pc
           => /\ q.pc = "idle" => p.pc \in {"getUser", "done"}
              /\ q.pc = "done" => p.pc = "idle"
              /\ CallIndex(q.pc) > 0
                 => \/ p.pc = "done"
                    \/ CallIndex(p.pc) = CallIndex(q.pc) + 1
              /\ p.res.status \in {400, 401, 403, 500} => p.pc = "done"
              /\ (CallIndex(q.pc) > 0 /\ q.pc # "createAttendance")
                 => UNCHANGED store
    ]_vars

\* The four reads are behind the invocation: createAttendance is called.
C24_Witness_AtTheWrite ==
  /\ req[1].pc = "createAttendance"
  /\ req[1].student # {}
  /\ req[1].session # {}

----------------------------------------------------------------------------
(* C25: the advertised budget. *)

\* C25: every 200 of generate-qr carries expiresIn = 600, whatever the
\* store holds; 600 s is the window the validator enforces: an issued token
\* presented unchanged is answered 'QR code expired' exactly when more than
\* 600 * 1000 ms have passed since its timestamp; the issuer itself refuses
\* no student because of an earlier token, expired or not.
C25_AdvertisedBudget ==
  /\ expiresIn * 1000 = tenMinutesInMs
  /\ (gen.pc = "done" /\ gen.status = 200) => gen.expiresIn = 600
  /\ (gen.pc = "done" /\ HasRole(gen.caller, "student") /\ gen.status # 500
      /\ sessions # {})
     => gen.status = 200
  /\ LET q == req[1]
     IN  (q.pc # "idle" /\ q.admitted /\ SchemaOk(q.body) /\ qrDataOf(q.body) \in issued)
         => (q.res.message = "QR code expired"
             <=> Greater(Minus(Num(q.now), DateParse(q.body.timestamp)), Num(600 * 1000)))

\* A second token is returned, with the same budget, after the first has
\* expired and the store has changed.
C25_Witness_SecondAfterExpiry ==
  /\ gen.pc = "done"
  /\ gen.status = 200
  /\ nCrud > 0
  /\ \E qr \in issued :
       Greater(Minus(Num(clock), DateParse(qr.timestamp)), Num(600 * 1000))

----------------------------------------------------------------------------
(* C26: the distance between a record and its token. *)

\* C26: the timestamp of every committed record is at most 600000 ms after
\* the timestamp of the token that produced it, however the clock moves
\* between the expiry check and the commit.  Stated for tokens whose
\* timestamp parses, where the distance is a number.
C26_RecordWithinWindow ==
  LET q == req[1]
  IN  (Answered(q) /\ q.res.status = 201 /\ ~DateParse(q.body.timestamp).nan)
      => \A a \in q.res.attendance :
           AtMost(Minus(Num(a.timestamp), DateParse(q.body.timestamp)),
                  Num(tenMinutesInMs))

----------------------------------------------------------------------------
(* C27: the expiry check has no lower bound. *)

\* C27: a token whose timestamp t parses and satisfies t >= now - 600000
\* passes the expiry check, a token dated after the validator's clock
\* included; it is answered 'QR code expired' only once now is more than
\* 600000 ms past t.
C27_OneSidedExpiry ==
  LET q == req[1]
      t == DateParse(q.body.timestamp)
  IN  (/\ q.pc # "idle" /\ q.admitted /\ SchemaOk(q.body) /\ FingerprintOk(q.body)
       /\ ~t.nan)
      => /\ t.v >= q.now - 600000 => q.res.message # "QR code expired"
         /\ t.v > q.now => q.res.message \notin {"QR code expired", "Invalid QR code"}
         /\ q.res.message = "QR code expired" => q.now > t.v + 600000

\* A token dated 1 s after the validator's clock is recorded.
C27_Witness_FutureTokenRecorded ==
  LET q == req[1]
  IN  /\ Answered(q)
      /\ q.res.status = 201
      /\ Greater(DateParse(q.body.timestamp), Num(q.now))

----------------------------------------------------------------------------
(* C28: referential integrity of attendance. *)

\* C28: in every reachable state, whatever scans and management requests
\* (course create, update, delete; session, enrollment, student create) came
\* before, each attendance record names an existing user with role
\* 'student' and an existing session, and that student has an enrollment in
\* the course the session names.
C28_ReferentialIntegrity ==
  \A a \in attendance :
    /\ \E u \in users : u.id = a.studentId /\ u.role = "student"
    /\ \E n \in sessions :
         /\ n.id = a.sessionId
         /\ \E e \in enrollments : e.studentId = a.studentId /\ e.courseId = n.courseId

\* A record is kept for a session whose course has since been deleted.
C28_Witness_CourseDeletedAfter ==
  \E a \in attendance : \E n \in sessions :
    n.id = a.sessionId /\ getCourse(n.courseId) = {}

----------------------------------------------------------------------------
(* C29: whom a token names. *)

\* C29: the token in a 200 of generate-qr names the caller, who is logged in
\* with role 'student': its studentId and the id under its fingerprint are
\* the caller's id, whoever else exists; the invocation carries the caller's
\* id from its start, and every token the issuer ever returned names a
\* student.
C29_TokenNamesCaller ==
  /\ gen.pc = "getSessions"
     => \A u \in gen.caller : u.role = "student" /\ gen.studentId = u.id
  /\ (gen.pc = "done" /\ gen.status = 200)
     => /\ Cardinality(gen.caller) = 1
        /\ Cardinality(gen.qrData) = 1
        /\ \A qr \in gen.qrData : \A u \in gen.caller :
             /\ u.role = "student"
             /\ u \in users
             /\ qr.studentId = u.id
             /\ qr.hash = generateQRHash(u.id, qr.sessionId, qr.timestamp)
             /\ qr \in issued
  /\ \A qr \in issued : \E u \in users : u.role = "student" /\ u.id = qr.studentId

\* Two students exist; the second is returned a token while one of the
\* first is outstanding.
C29_Witness_SecondStudent ==
  /\ gen.pc = "done"
  /\ gen.status = 200
  /\ \E u \in gen.caller : u.id = 3
  /\ \E qr \in issued : qr.studentId = 2

----------------------------------------------------------------------------
(* C30: the two versions of scan. *)

\* The caller the middleware version sees in the credential state of a
\* session token: nobody when there is no token or the token is invalid or
\* expired, else the user the token was given to.
LoggedIn(token, now) ==
  {u \in users : \E payload \in verifyToken(token, now) : u.id = payload.userId}

\* C30: the session-token version of scan answers as the middleware version
\* does in the same credential state (none, invalid or expired, student,
\* admin): it goes on to the payload exactly when requireAdmin calls next(),
\* and otherwise sends the status and message requireAdmin sends, with the
\* store as it was.
C30_SameAnswerAsMiddleware ==
  LET q == req[1]
      gate == requireAdmin(LoggedIn(q.caller, clock))
  IN  (q.pc = "done" /\ ~q.admitted)
      => /\ gate # 0
         /\ q.res.status = gate
         /\ q.res.message = AuthMessage(gate)
         /\ Snapshot = q.pre

====
